---- MODULE Spec2Model ----
(***************************************************************************)
(* Model of the PDF quiz feature of sensai-ai: the page (PDFQuizPage), the  *)
(* upload form (PDFUpload), the quiz view (PDFQuizView) and the two proxy   *)
(* route handlers (POST /api/pdf-quizzes/upload, GET /api/pdf-quizzes/      *)
(* quiz/[quizId]).                                                          *)
(*                                                                         *)
(* Strings are sequences of one-character strings.  A value that may be     *)
(* null in the source is a sequence of length 0 (null) or 1 (the value).    *)
(* An async handler suspended at an await is a record of the bag `tasks`,   *)
(* holding the variables its closure captured.                              *)
(***************************************************************************)
EXTENDS Integers, Sequences, FiniteSets, Bags, TLC

(***************************************************************************)
(* Bounds of the model                                                     *)
(***************************************************************************)
\* largest number of questions in a quiz the backend returns
MaxQuestions == 2
\* number of component instances (upload forms and quiz views) ever mounted
MaxInst == 4

(***************************************************************************)
(* Optional values                                                         *)
(***************************************************************************)
None == <<>>

Some(v) == <<v>>

IsSome(o) == o # <<>>

Val(o) == o[1]

(***************************************************************************)
(* Strings                                                                 *)
(***************************************************************************)
\* characters String.prototype.trim removes (the ones the inputs use)
Whitespace == {" ", "\t", "\n"}

RECURSIVE TrimStart(_)
TrimStart(s) ==
    IF s # <<>> /\ Head(s) \in Whitespace THEN TrimStart(Tail(s)) ELSE s

RECURSIVE TrimEnd(_)
TrimEnd(s) ==
    IF s # <<>> /\ s[Len(s)] \in Whitespace
    THEN TrimEnd(SubSeq(s, 1, Len(s) - 1))
    ELSE s

\* String.prototype.trim
Trim(s) == TrimEnd(TrimStart(s))

\* ASCII lower-casing of the letters that matter to /\.pdf$/i
LowerChar(c) ==
    CASE c = "P" -> "p"
      [] c = "D" -> "d"
      [] c = "F" -> "f"
      [] OTHER -> c

\* name.replace(/\.pdf$/i, "")
StripPdfExt(name) ==
    LET n == Len(name) IN
    IF n >= 4 /\ [i \in 1..4 |-> LowerChar(name[n - 4 + i])] = <<".", "p", "d", "f">>
    THEN SubSeq(name, 1, n - 4)
    ELSE name

(***************************************************************************)
(* FileReader.readAsDataURL and the base64 text it produces                 *)
(***************************************************************************)
B64Alphabet ==
    << "A", "B", "C", "D", "E", "F", "G", "H", "I", "J", "K", "L", "M", "N", "O", "P",
       "Q", "R", "S", "T", "U", "V", "W", "X", "Y", "Z", "a", "b", "c", "d", "e", "f",
       "g", "h", "i", "j", "k", "l", "m", "n", "o", "p", "q", "r", "s", "t", "u", "v",
       "w", "x", "y", "z", "0", "1", "2", "3", "4", "5", "6", "7", "8", "9", "+", "/" >>

\* the four base64 characters of one group of one, two or three bytes
B64Group(g) ==
    LET b1 == g[1]
        b2 == IF Len(g) >= 2 THEN g[2] ELSE 0
        b3 == IF Len(g) >= 3 THEN g[3] ELSE 0
        n  == b1 * 65536 + b2 * 256 + b3
        c1 == B64Alphabet[(n \div 262144) + 1]
        c2 == B64Alphabet[((n \div 4096) % 64) + 1]
        c3 == IF Len(g) >= 2 THEN B64Alphabet[((n \div 64) % 64) + 1] ELSE "="
        c4 == IF Len(g) >= 3 THEN B64Alphabet[(n % 64) + 1] ELSE "="
    IN  <<c1, c2, c3, c4>>

RECURSIVE Base64Encode(_)
Base64Encode(bytes) ==
    IF bytes = <<>> THEN <<>>
    ELSE IF Len(bytes) <= 3 THEN B64Group(bytes)
    ELSE B64Group(SubSeq(bytes, 1, 3)) \o Base64Encode(SubSeq(bytes, 4, Len(bytes)))

\* reader.result of readAsDataURL: "data:<type>;base64,<base64 of the bytes>"
ReadAsDataURL(f) == <<"data:", f.type, ";base64", ",">> \o Base64Encode(f.bytes)

\* String.prototype.split with a one-character separator
RECURSIVE Split(_, _)
Split(s, sep) ==
    IF \A i \in 1..Len(s) : s[i] # sep THEN <<s>>
    ELSE LET k == CHOOSE i \in 1..Len(s) : s[i] = sep /\ \A j \in 1..(i - 1) : s[j] # sep
         IN  <<SubSeq(s, 1, k - 1)>> \o Split(SubSeq(s, k + 1, Len(s)), sep)

\* the value fileToBase64 resolves with: result.split(",")[1]
fileToBase64(f) == Split(ReadAsDataURL(f), ",")[2]

(***************************************************************************)
(* Inputs: the files the user can pick, what the user can type, and what    *)
(* the network can answer                                                   *)
(***************************************************************************)
PdfType == "application/pdf"

\* File objects a file chooser can deliver (name, MIME type, content bytes)
FileInputs ==
    { [name |-> <<"a", ".", "p", "d", "f">>, type |-> PdfType, bytes |-> <<37, 80, 68, 70>>],
      [name |-> <<" ", ".", "P", "D", "F">>, type |-> PdfType, bytes |-> <<255, 0>>],
      [name |-> <<"n", ".", "t", "x", "t">>, type |-> "text/plain", bytes |-> <<104, 105>>] }

\* values the user can type into the title field
TitleInputs == { <<>>, <<" ", "q", "\t">> }

\* values a question's answer control can deliver
AnswerInputs == { <<>>, <<" ">>, <<"a">>, <<"\n", "a", " ">> }

\* HTTP status and status text of the responses a fetch can resolve with
OkStatus == [ok |-> TRUE, status |-> 200, statusText |-> <<"OK">>]

ErrorStatuses ==
    { [ok |-> FALSE, status |-> 404, statusText |-> <<"Not Found">>],
      [ok |-> FALSE, status |-> 500, statusText |-> <<"Internal Server Error">>] }

\* JSON payloads of a successful upload
UploadResults ==
    { [id |-> 1, title |-> <<"a">>, message |-> <<"Quiz generated">>],
      [id |-> 2, title |-> <<"q">>, message |-> <<"Quiz generated">>] }

\* question k of a quiz; even ids are multiple choice
Question(k) ==
    [id |-> k,
     question_type |-> IF k % 2 = 0 THEN "mcq" ELSE "short_answer",
     options |-> IF k % 2 = 0 THEN << <<"a">>, <<" ", "a">> >> ELSE <<>>]

\* JSON payloads of a successful quiz fetch for quiz id
QuizPayloads(id) ==
    { [id |-> id, title |-> <<"q">>, questions |-> [k \in 1..n |-> Question(k)]] :
        n \in 0..MaxQuestions }

\* what a fetch settles with: a rejection (network failure), a non-success
\* response, or a success response whose body is JSON (Some) or not (None)
NetworkError ==
    [failed |-> TRUE, ok |-> FALSE, status |-> 0, statusText |-> <<>>, body |-> None]

HttpResponse(st, b) ==
    [failed |-> FALSE, ok |-> st.ok, status |-> st.status,
     statusText |-> st.statusText, body |-> b]

\* the grading endpoint's JSON payload for the answers it was sent
SubmissionResponses(sent) ==
    { [results |-> [i \in 1..Len(sent) |->
                      [question_id |-> sent[i].question_id,
                       user_answer |-> sent[i].answer,
                       is_correct |-> (sent[i].answer = <<"a">>)]],
       max_score |-> Len(sent)] }

(***************************************************************************)
(* State                                                                   *)
(***************************************************************************)
VARIABLES
    currentQuiz,    \* PDFQuizPage: null or {id, title}
    inst,           \* identity of the component instance the page has mounted
    file,           \* PDFUpload: null or the accepted File
    title,          \* PDFUpload: the title field
    isUploading,    \* PDFUpload
    uploadStatus,   \* PDFUpload: {type, message}
    quiz,           \* PDFQuizView: null or the fetched quiz
    answers,        \* PDFQuizView: Record<question id, string>
    showHints,      \* PDFQuizView: Record<question id, boolean>
    isSubmitting,   \* PDFQuizView
    results,        \* PDFQuizView: null or the submission response
    loading,        \* PDFQuizView
    error,          \* PDFQuizView: null or a message
    tasks,          \* async handlers of the mounted instance suspended at an await
    orphans,        \* requests outstanding for instances that were unmounted
    proxy           \* the route handler invocation being served, if any

pageVars == <<currentQuiz, inst>>

uploadVars == <<file, title, isUploading, uploadStatus>>

viewVars == <<quiz, answers, showHints, isSubmitting, results, loading, error>>

uiVars == <<currentQuiz, inst, file, title, isUploading, uploadStatus,
            quiz, answers, showHints, isSubmitting, results, loading, error,
            tasks, orphans>>

vars == <<currentQuiz, inst, file, title, isUploading, uploadStatus,
          quiz, answers, showHints, isSubmitting, results, loading, error,
          tasks, orphans, proxy>>

\* the useState initial values of PDFUpload
UploadInit ==
    /\ file = None
    /\ title = <<>>
    /\ isUploading = FALSE
    /\ uploadStatus = [type |-> "null", message |-> <<>>]

\* the useState initial values of PDFQuizView
ViewInit ==
    /\ quiz = None
    /\ answers = <<>>
    /\ showHints = <<>>
    /\ isSubmitting = FALSE
    /\ results = None
    /\ loading = TRUE
    /\ error = None

\* a new PDFUpload instance is mounted
MountUpload ==
    /\ file' = None
    /\ title' = <<>>
    /\ isUploading' = FALSE
    /\ uploadStatus' = [type |-> "null", message |-> <<>>]

\* a new PDFQuizView instance is mounted, or the mounted one is discarded
MountView ==
    /\ quiz' = None
    /\ answers' = <<>>
    /\ showHints' = <<>>
    /\ isSubmitting' = FALSE
    /\ results' = None
    /\ loading' = TRUE
    /\ error' = None

\* a suspended async handler of component instance i
Task(i, k, st) ==
    [inst |-> i, kind |-> k, stage |-> st, file |-> None, title |-> <<>>,
     quizId |-> 0, body |-> None, sent |-> 0, resp |-> None]

UploadMounted == currentQuiz = None

ViewMounted == currentQuiz # None

\* what PDFQuizView renders (the early returns of its render function)
Screen ==
    IF loading THEN "spinner"
    ELSE IF IsSome(error) THEN "error"
    ELSE IF quiz = None THEN "notfound"
    ELSE "quiz"

(***************************************************************************)
(* The network and the FileReader, as the handlers see them                 *)
(***************************************************************************)
PayloadsFor(t) ==
    CASE t.kind = "upload" -> UploadResults
      [] t.kind = "fetchQuiz" -> QuizPayloads(t.quizId)
      [] OTHER             -> SubmissionResponses(Val(t.body).answers)

ResponsesFor(t) ==
    {NetworkError}
      \cup { HttpResponse(e, None) : e \in ErrorStatuses }
      \cup { HttpResponse(OkStatus, b) : b \in {None} \cup { Some(p) : p \in PayloadsFor(t) } }

(***************************************************************************)
(* PDFQuizPage                                                             *)
(***************************************************************************)
\* variant: the page keeps the title typed into the form, not the reported one
handleQuizGenerated_FormTitle(quizId, t) ==
    currentQuiz' = Some([id |-> quizId, title |-> Trim(title)])

handleQuizGenerated(quizId, t) == currentQuiz' = Some([id |-> quizId, title |-> t])

handleBackToUpload == currentQuiz' = None

\* PDFQuizView's effect on mount: fetchQuiz up to its first await
fetchQuiz(i, quizId) ==
    [Task(i, "fetchQuiz", "fetch") EXCEPT !.quizId = quizId, !.sent = 1]

(***************************************************************************)
(* PDFUpload                                                               *)
(***************************************************************************)
\* variant: the button stays enabled while an upload is in progress
UploadButtonDisabled_NoUploadingGate == file = None \/ Trim(title) = <<>>

\* the disabled attribute of the "Generate Quiz" button
UploadButtonDisabled == isUploading \/ file = None \/ Trim(title) = <<>>

\* variant: the file is accepted whatever its type
handleFileChange_AnyType(selectedFile) ==
    /\ UploadMounted
    /\ file' = Some(selectedFile)
    /\ title' = StripPdfExt(selectedFile.name)
    /\ UNCHANGED <<pageVars, isUploading, uploadStatus, viewVars, tasks, orphans, proxy>>

handleFileChange(selectedFile) ==
    /\ UploadMounted
    /\ IF selectedFile.type = PdfType
       THEN /\ file' = Some(selectedFile)
            /\ title' = StripPdfExt(selectedFile.name)
            /\ UNCHANGED uploadStatus
       ELSE /\ uploadStatus' = [type |-> "error",
                                message |-> <<"Please select a valid PDF file.">>]
            /\ UNCHANGED <<file, title>>
    /\ UNCHANGED <<pageVars, isUploading, viewVars, tasks, orphans, proxy>>

\* onChange of the title input
setTitle(v) ==
    /\ UploadMounted
    /\ title' = v
    /\ UNCHANGED <<pageVars, file, isUploading, uploadStatus, viewVars, tasks, orphans, proxy>>

\* the form's submit event, up to the first await (fileToBase64)
PDFUpload_handleSubmit ==
    /\ UploadMounted
    /\ ~UploadButtonDisabled
    /\ inst < MaxInst
    /\ IF file = None \/ Trim(title) = <<>>
       THEN /\ uploadStatus' = [type |-> "error",
                                message |-> <<"Please select a PDF file and enter a title.">>]
            /\ UNCHANGED <<isUploading, tasks>>
       ELSE /\ isUploading' = TRUE
            /\ uploadStatus' = [type |-> "null", message |-> <<>>]
            /\ tasks' = tasks (+) SetToBag(
                 {[Task(inst, "upload", "read") EXCEPT !.file = file, !.title = title]})
    /\ UNCHANGED <<pageVars, file, title, viewVars, orphans, proxy>>

\* variant: the form is reset after a failure as it is after a success
UploadCatch_ResetForm(t, message) ==
    /\ uploadStatus' = [type |-> "error", message |-> message]
    /\ isUploading' = FALSE
    /\ file' = None
    /\ title' = <<>>
    /\ tasks' = tasks (-) SetToBag({t})
    /\ UNCHANGED <<pageVars, viewVars>>

\* catch and finally of handleSubmit
UploadCatch(t, message) ==
    /\ uploadStatus' = [type |-> "error", message |-> message]
    /\ isUploading' = FALSE
    /\ tasks' = tasks (-) SetToBag({t})
    /\ UNCHANGED <<pageVars, file, title, viewVars>>

\* variant: the body is built from the form as it is when the file was read
UploadBody_CurrentForm(t) ==
    [title |-> Trim(title), file_content |-> fileToBase64(Val(file))]

\* the body of the upload request, from the variables the handler closed over
UploadBody(t) ==
    [title |-> Trim(t.title), file_content |-> fileToBase64(Val(t.file))]

\* fileToBase64 settles: reader.onload or reader.onerror
PDFUpload_afterRead(t) ==
    /\ BagIn(t, tasks)
    /\ t.kind = "upload" /\ t.stage = "read"
    /\ \E loaded \in BOOLEAN :
          IF loaded
          THEN /\ tasks' = (tasks (-) SetToBag({t})) (+) SetToBag({[t EXCEPT !.stage = "fetch",
                                !.body = Some(UploadBody(t)),
                                !.sent = @ + 1]})
               /\ UNCHANGED <<pageVars, uploadVars, viewVars>>
          ELSE UploadCatch(t, <<"Upload failed. Please try again.">>)
    /\ UNCHANGED <<orphans, proxy>>

\* the fetch of handleSubmit settles with r
PDFUpload_afterFetch(t) ==
    /\ BagIn(t, tasks)
    /\ t.kind = "upload" /\ t.stage = "fetch"
    /\ \E r \in ResponsesFor(t) :
          IF r.failed THEN UploadCatch(t, <<"Failed to fetch">>)
          ELSE IF ~r.ok THEN UploadCatch(t, <<"Upload failed: ">> \o r.statusText)
          ELSE /\ tasks' = (tasks (-) SetToBag({t})) (+) SetToBag({[t EXCEPT !.stage = "json", !.resp = Some(r)]})
               /\ UNCHANGED <<pageVars, uploadVars, viewVars>>
    /\ UNCHANGED <<orphans, proxy>>

\* response.json() settles; on success the page mounts the quiz view, whose
\* effect starts fetchQuiz
PDFUpload_afterJson(t) ==
    /\ BagIn(t, tasks)
    /\ t.kind = "upload" /\ t.stage = "json"
    /\ LET r == Val(t.resp) IN
          IF r.body = None THEN UploadCatch(t, <<"Unexpected token">>)
          ELSE LET result == Val(r.body) IN
               /\ uploadStatus' = [type |-> "success", message |-> result.message]
               /\ handleQuizGenerated(result.id, result.title)
               /\ file' = None
               /\ title' = <<>>
               /\ isUploading' = FALSE
               /\ inst' = inst + 1
               /\ MountView
               /\ tasks' = (tasks (-) SetToBag({t})) (+) SetToBag({fetchQuiz(inst + 1, result.id)})
    /\ UNCHANGED <<orphans, proxy>>

(***************************************************************************)
(* PDFQuizView                                                             *)
(***************************************************************************)
\* quiz.questions where the render function reads it
Questions == IF quiz = None THEN <<>> ELSE Val(quiz).questions

QuestionIds == { Questions[i].id : i \in DOMAIN Questions }

\* variant: an answer that was never given counts as given
AnswerBlank_IgnoreMissing(id) ==
    id \in DOMAIN answers /\ Trim(answers[id]) = <<>>

\* !answers[q.id] || answers[q.id].trim() === ""
AnswerBlank(id) ==
    \/ id \notin DOMAIN answers
    \/ answers[id] = <<>>
    \/ Trim(answers[id]) = <<>>

\* variant: the answers are tested without trimming
SubmitButtonDisabled_NoTrim ==
    \/ isSubmitting
    \/ quiz = None
    \/ \E i \in DOMAIN Questions :
          Questions[i].id \notin DOMAIN answers \/ answers[Questions[i].id] = <<>>

\* the disabled attribute of the "Submit Quiz" button
SubmitButtonDisabled ==
    \/ isSubmitting
    \/ quiz = None
    \/ \E i \in DOMAIN Questions : AnswerBlank(Questions[i].id)

\* variant: the button is rendered whether or not results were received
SubmitButtonRendered_AlsoInReview == ViewMounted /\ Screen = "quiz"

\* the "Submit Quiz" button is part of what is rendered
SubmitButtonRendered == ViewMounted /\ Screen = "quiz" /\ results = None

\* Object.entries(answers).map(...): integer keys in ascending order
RECURSIVE Entries(_)
Entries(a) ==
    IF DOMAIN a = {} THEN <<>>
    ELSE LET k == CHOOSE x \in DOMAIN a : \A y \in DOMAIN a : x <= y
         IN  <<[question_id |-> k, answer |-> a[k]]>>
               \o Entries([x \in DOMAIN a \ {k} |-> a[x]])

\* the values the answer control of question q can deliver
AnswerChoices(q) ==
    IF q.question_type = "mcq"
    THEN { q.options[i] : i \in DOMAIN q.options }
    ELSE AnswerInputs

handleAnswerChange(questionId, answer) ==
    /\ ViewMounted /\ Screen = "quiz" /\ results = None
    /\ questionId \in QuestionIds
    /\ answers' = (questionId :> answer) @@ answers
    /\ UNCHANGED <<pageVars, uploadVars, quiz, showHints, isSubmitting, results,
                   loading, error, tasks, orphans, proxy>>

\* showHints[question.id] where the render function tests it: the hint of the
\* question is shown
HintVisible(hints, questionId) == questionId \in DOMAIN hints /\ hints[questionId]

\* variant: the updater shows the hint whatever its state was
ToggledHints_AlwaysShow(prev, questionId) == (questionId :> TRUE) @@ prev

\* the updater toggleHint passes to setShowHints:
\* prev => ({...prev, [questionId]: !prev[questionId]})
ToggledHints(prev, questionId) ==
    (questionId :> ~(questionId \in DOMAIN prev /\ prev[questionId])) @@ prev

toggleHint(questionId) ==
    /\ ViewMounted /\ Screen = "quiz"
    /\ questionId \in QuestionIds
    /\ showHints' = ToggledHints(showHints, questionId)
    /\ UNCHANGED <<pageVars, uploadVars, quiz, answers, isSubmitting, results,
                   loading, error, tasks, orphans, proxy>>

\* click on "Submit Quiz": handleSubmit up to its first await (the fetch)
PDFQuizView_handleSubmit ==
    /\ SubmitButtonRendered
    /\ ~SubmitButtonDisabled
    /\ IF quiz = None
       THEN UNCHANGED <<isSubmitting, tasks>>
       ELSE /\ isSubmitting' = TRUE
            /\ tasks' = tasks (+) SetToBag(
                 {[Task(inst, "submit", "fetch") EXCEPT
                     !.quizId = Val(currentQuiz).id,
                     !.body = Some([quiz_id |-> Val(currentQuiz).id,
                                    answers |-> Entries(answers)]),
                     !.sent = 1]})
    /\ UNCHANGED <<pageVars, uploadVars, quiz, answers, showHints, results,
                   loading, error, orphans, proxy>>

\* variant: the failure is recorded but the submitting flag is never cleared
SubmitCatch_KeepSubmitting(t, message) ==
    /\ error' = Some(message)
    /\ tasks' = tasks (-) SetToBag({t})
    /\ UNCHANGED <<pageVars, uploadVars, quiz, answers, showHints, isSubmitting, results,
                   loading>>

\* catch and finally of handleSubmit
SubmitCatch(t, message) ==
    /\ error' = Some(message)
    /\ isSubmitting' = FALSE
    /\ tasks' = tasks (-) SetToBag({t})
    /\ UNCHANGED <<pageVars, uploadVars, quiz, answers, showHints, results, loading>>

\* the fetch of handleSubmit settles with r
PDFQuizView_submitAfterFetch(t) ==
    /\ BagIn(t, tasks)
    /\ t.kind = "submit" /\ t.stage = "fetch"
    /\ \E r \in ResponsesFor(t) :
          IF r.failed THEN SubmitCatch(t, <<"Failed to fetch">>)
          ELSE IF ~r.ok THEN SubmitCatch(t, <<"Submission failed: ">> \o r.statusText)
          ELSE /\ tasks' = (tasks (-) SetToBag({t})) (+) SetToBag({[t EXCEPT !.stage = "json", !.resp = Some(r)]})
               /\ UNCHANGED <<pageVars, uploadVars, viewVars>>
    /\ UNCHANGED <<orphans, proxy>>

\* response.json() of handleSubmit settles
PDFQuizView_submitAfterJson(t) ==
    /\ BagIn(t, tasks)
    /\ t.kind = "submit" /\ t.stage = "json"
    /\ LET r == Val(t.resp) IN
          IF r.body = None THEN SubmitCatch(t, <<"Unexpected token">>)
          ELSE /\ results' = r.body
               /\ isSubmitting' = FALSE
               /\ tasks' = tasks (-) SetToBag({t})
               /\ UNCHANGED <<pageVars, uploadVars, quiz, answers, showHints, loading, error>>
    /\ UNCHANGED <<orphans, proxy>>

\* variant: the failure is recorded but the loading flag is never cleared
FetchCatch_KeepLoading(t, message) ==
    /\ error' = Some(message)
    /\ tasks' = tasks (-) SetToBag({t})
    /\ UNCHANGED <<pageVars, uploadVars, quiz, answers, showHints, isSubmitting, results,
                   loading>>

\* catch and finally of fetchQuiz
FetchCatch(t, message) ==
    /\ error' = Some(message)
    /\ loading' = FALSE
    /\ tasks' = tasks (-) SetToBag({t})
    /\ UNCHANGED <<pageVars, uploadVars, quiz, answers, showHints, isSubmitting, results>>

\* the fetch of fetchQuiz settles with r
PDFQuizView_fetchQuizAfterFetch(t) ==
    /\ BagIn(t, tasks)
    /\ t.kind = "fetchQuiz" /\ t.stage = "fetch"
    /\ \E r \in ResponsesFor(t) :
          IF r.failed THEN FetchCatch(t, <<"Failed to fetch">>)
          ELSE IF ~r.ok THEN FetchCatch(t, <<"Failed to fetch quiz: ">> \o r.statusText)
          ELSE /\ tasks' = (tasks (-) SetToBag({t})) (+) SetToBag({[t EXCEPT !.stage = "json", !.resp = Some(r)]})
               /\ UNCHANGED <<pageVars, uploadVars, viewVars>>
    /\ UNCHANGED <<orphans, proxy>>

\* response.json() of fetchQuiz settles
PDFQuizView_fetchQuizAfterJson(t) ==
    /\ BagIn(t, tasks)
    /\ t.kind = "fetchQuiz" /\ t.stage = "json"
    /\ LET r == Val(t.resp) IN
          IF r.body = None THEN FetchCatch(t, <<"Unexpected token">>)
          ELSE /\ quiz' = r.body
               /\ loading' = FALSE
               /\ tasks' = tasks (-) SetToBag({t})
               /\ UNCHANGED <<pageVars, uploadVars, answers, showHints, isSubmitting,
                              results, error>>
    /\ UNCHANGED <<orphans, proxy>>

\* the requests the handlers of the bag B have outstanding, by instance and kind
RECURSIVE Requests(_)
Requests(B) ==
    IF BagToSet(B) = {} THEN EmptyBag
    ELSE LET t == CHOOSE x \in BagToSet(B) : TRUE
             rest == Requests(B (-) SetToBag({t}))
         IN  IF t.stage = "read" THEN rest
             ELSE rest (+) SetToBag({[inst |-> t.inst, kind |-> t.kind]})

\* a button bound to onBack is part of what is rendered: "Go Back" on the
\* error and "Quiz not found" panels, "Back to Upload" above the quiz; the
\* spinner has none
BackButtonRendered == ViewMounted /\ Screen # "spinner"

\* a click on "Go Back" or "Back to Upload": the page unmounts the quiz view and
\* mounts a new upload form.  Nothing cancels the requests of the unmounted
\* view: they stay outstanding, and React drops the state updates of their
\* handlers.
onBack ==
    /\ BackButtonRendered
    /\ inst < MaxInst
    /\ handleBackToUpload
    /\ inst' = inst + 1
    /\ MountUpload
    /\ MountView
    /\ orphans' = orphans (+) Requests(tasks)
    /\ tasks' = EmptyBag
    /\ UNCHANGED proxy

\* a request of an unmounted instance settles: its handler runs to its end
\* and changes no state
settleUnmounted(o) ==
    /\ BagIn(o, orphans)
    /\ orphans' = orphans (-) SetToBag({o})
    /\ UNCHANGED <<pageVars, uploadVars, viewVars, tasks, proxy>>

(***************************************************************************)
(* The user interface as a whole                                           *)
(***************************************************************************)
ProxyIdle == [pc |-> "idle"]

Init ==
    /\ currentQuiz = None
    /\ inst = 1
    /\ UploadInit
    /\ ViewInit
    /\ tasks = EmptyBag
    /\ orphans = EmptyBag
    /\ proxy = ProxyIdle

Next ==
    \/ \E f \in FileInputs : handleFileChange(f)
    \/ \E v \in TitleInputs : setTitle(v)
    \/ PDFUpload_handleSubmit
    \/ \E t \in BagToSet(tasks) : PDFUpload_afterRead(t)
    \/ \E t \in BagToSet(tasks) : PDFUpload_afterFetch(t)
    \/ \E t \in BagToSet(tasks) : PDFUpload_afterJson(t)
    \/ \E t \in BagToSet(tasks) : PDFQuizView_fetchQuizAfterFetch(t)
    \/ \E t \in BagToSet(tasks) : PDFQuizView_fetchQuizAfterJson(t)
    \/ \E i \in DOMAIN Questions :
          \E a \in AnswerChoices(Questions[i]) : handleAnswerChange(Questions[i].id, a)
    \/ \E q \in QuestionIds : toggleHint(q)
    \/ PDFQuizView_handleSubmit
    \/ \E t \in BagToSet(tasks) : PDFQuizView_submitAfterFetch(t)
    \/ \E t \in BagToSet(tasks) : PDFQuizView_submitAfterJson(t)
    \/ onBack
    \/ \E o \in BagToSet(orphans) : settleUnmounted(o)

Spec == Init /\ [][Next]_vars

(***************************************************************************)
(* The proxy route handlers: POST /api/pdf-quizzes/upload and               *)
(* GET /api/pdf-quizzes/quiz/[quizId]                                       *)
(***************************************************************************)
BACKEND_URL == <<"http://localhost:8000">>

\* incoming requests: the Authorization header may be absent, the body of a
\* POST may be no JSON at all (None)
PostRequests ==
    { [route |-> "upload", quizId |-> 0, auth |-> a, json |-> j] :
        a \in {None, Some(<<"Bearer 1">>)},
        j \in {None,
               Some([title |-> <<"a">>, file_content |-> <<"J", "Q", "=", "=">>]),
               Some([title |-> <<>>])} }

GetRequests ==
    { [route |-> "quiz", quizId |-> q, auth |-> a, json |-> None] :
        a \in {None, Some(<<"Bearer 1">>)}, q \in {1, 2} }

\* what the backend call settles with: a rejection, or a response whose body
\* may fail to be read (bodyOk) and may be no JSON (json = None)
BackendResponses(payloads) ==
    { [failed |-> TRUE, ok |-> FALSE, status |-> 0, statusText |-> <<>>,
       bodyOk |-> FALSE, json |-> None] }
      \cup { [failed |-> FALSE, ok |-> FALSE, status |-> e.status,
              statusText |-> e.statusText, bodyOk |-> b, json |-> None] :
                e \in ErrorStatuses, b \in BOOLEAN }
      \cup { [failed |-> FALSE, ok |-> TRUE, status |-> 200, statusText |-> <<"OK">>,
              bodyOk |-> j # None, json |-> j] :
                j \in {None} \cup { Some(p) : p \in payloads } }

\* request.headers.get("Authorization") || ""
AuthHeader(req) == IF req.auth = None THEN <<>> ELSE Val(req.auth)

\* NextResponse.json(body, {status})
NextResponseJson(body, status) == [status |-> status, body |-> body]

\* the response of both catch blocks
InternalServerError == NextResponseJson([error |-> <<"Internal server error">>], 500)

\* variant: every backend error is reported with status 500
BackendError_Always500(r) ==
    NextResponseJson([error |-> <<"Backend error: ">> \o r.statusText], 500)

\* the response of both !response.ok branches
BackendError(r) ==
    NextResponseJson([error |-> <<"Backend error: ">> \o r.statusText], r.status)

\* the handler returns
ProxyReturn(out) == proxy' = [proxy EXCEPT !.pc = "done", !.out = Some(out)]

\* a route handler is invoked; the previous invocation has returned
ProxyStart(req, pc) ==
    /\ proxy.pc \in {"idle", "done"}
    /\ proxy' = [pc |-> pc, req |-> req, body |-> None, calls |-> 0,
                 fwd |-> None, resp |-> None, out |-> None]
    /\ UNCHANGED uiVars

\* POST up to its first await, request.json()
POST(request) == ProxyStart(request, "POST:json")

\* request.json() settles; on success the backend call is made
POST_afterJson ==
    /\ proxy.pc = "POST:json"
    /\ IF proxy.req.json = None
       THEN ProxyReturn(InternalServerError)
       ELSE proxy' = [proxy EXCEPT
                        !.pc = "POST:fetch",
                        !.body = proxy.req.json,
                        !.calls = @ + 1,
                        !.fwd = Some([url |-> BACKEND_URL \o <<"/pdf-quizzes/upload">>,
                                      method |-> "POST",
                                      Authorization |-> AuthHeader(proxy.req),
                                      body |-> proxy.req.json])]
    /\ UNCHANGED uiVars

\* variant: a rejected backend call is made once more
POST_afterFetch_Retry ==
    /\ proxy.pc = "POST:fetch"
    /\ \E r \in BackendResponses(UploadResults) :
          IF r.failed
          THEN IF proxy.calls < 2
               THEN proxy' = [proxy EXCEPT !.calls = @ + 1]
               ELSE ProxyReturn(InternalServerError)
          ELSE proxy' = [proxy EXCEPT !.pc = "POST:body", !.resp = Some(r)]
    /\ UNCHANGED uiVars

\* the backend call of POST settles with r
POST_afterFetch ==
    /\ proxy.pc = "POST:fetch"
    /\ \E r \in BackendResponses(UploadResults) :
          IF r.failed THEN ProxyReturn(InternalServerError)
          ELSE proxy' = [proxy EXCEPT !.pc = "POST:body", !.resp = Some(r)]
    /\ UNCHANGED uiVars

\* response.text() or response.json() of POST settles
POST_afterBody ==
    /\ proxy.pc = "POST:body"
    /\ LET r == Val(proxy.resp) IN
          IF ~r.ok
          THEN IF r.bodyOk THEN ProxyReturn(BackendError(r))
               ELSE ProxyReturn(InternalServerError)
          ELSE IF r.json = None THEN ProxyReturn(InternalServerError)
               ELSE ProxyReturn(NextResponseJson(Val(r.json), 200))
    /\ UNCHANGED uiVars

\* GET up to its first await, context.params
GET(request) == ProxyStart(request, "GET:params")

\* context.params settles; the backend call is made
GET_afterParams ==
    /\ proxy.pc = "GET:params"
    /\ proxy' = [proxy EXCEPT
                   !.pc = "GET:fetch",
                   !.calls = @ + 1,
                   !.fwd = Some([url |-> BACKEND_URL \o <<"/pdf-quizzes/quiz/", proxy.req.quizId>>,
                                 method |-> "GET",
                                 Authorization |-> AuthHeader(proxy.req),
                                 body |-> None])]
    /\ UNCHANGED uiVars

\* the backend call of GET settles with r
GET_afterFetch ==
    /\ proxy.pc = "GET:fetch"
    /\ \E r \in BackendResponses(QuizPayloads(proxy.req.quizId)) :
          IF r.failed THEN ProxyReturn(InternalServerError)
          ELSE proxy' = [proxy EXCEPT !.pc = "GET:body", !.resp = Some(r)]
    /\ UNCHANGED uiVars

\* response.text() or response.json() of GET settles
GET_afterBody ==
    /\ proxy.pc = "GET:body"
    /\ LET r == Val(proxy.resp) IN
          IF ~r.ok
          THEN IF r.bodyOk THEN ProxyReturn(BackendError(r))
               ELSE ProxyReturn(InternalServerError)
          ELSE IF r.json = None THEN ProxyReturn(InternalServerError)
               ELSE ProxyReturn(NextResponseJson(Val(r.json), 200))
    /\ UNCHANGED uiVars

NextProxy ==
    \/ \E request \in PostRequests : POST(request)
    \/ POST_afterJson
    \/ POST_afterFetch
    \/ POST_afterBody
    \/ \E request \in GetRequests : GET(request)
    \/ GET_afterParams
    \/ GET_afterFetch
    \/ GET_afterBody

SpecProxy == Init /\ [][NextProxy]_vars

(***************************************************************************)
(* Properties of the quiz view                                             *)
(***************************************************************************)
AllWhitespace(s) == \A k \in 1..Len(s) : s[k] \in Whitespace

\* question id has an answer in a that is non-empty once whitespace is removed
Answered(a, id) == id \in DOMAIN a /\ ~AllWhitespace(a[id])

EveryQuestionAnswered == \A i \in DOMAIN Questions : Answered(answers, Questions[i].id)

\* this step issues a submit request
SubmitIssued ==
    \E t \in BagToSet(tasks') :
        /\ t.kind = "submit" /\ t.stage = "fetch"
        /\ CopiesIn(t, tasks') > CopiesIn(t, tasks)

\* C1: a submit request is issued only in a state in which every question of
\* the loaded quiz has an answer that is non-empty after trimming
C1_SubmitOnlyWhenAllAnswered ==
    [][SubmitIssued => (quiz # None /\ EveryQuestionAnswered)]_vars

\* a submit request is outstanding for a quiz of at least two questions whose
\* hints were used
C1_Witness ==
    /\ \E t \in BagToSet(tasks) : t.kind = "submit"
    /\ Len(Questions) >= 2
    /\ showHints # <<>>

\* the user cannot trigger a submission
SubmitActionDisabled == ~SubmitButtonRendered \/ SubmitButtonDisabled

\* C2, as stated: with the quiz loaded and no results received, the submit
\* action is disabled if and only if some question has a blank answer
C2_DisabledIffBlank_AsStated ==
    (ViewMounted /\ quiz # None /\ results = None)
        => (SubmitActionDisabled <=> ~EveryQuestionAnswered)

\* C2, amended: with the quiz displayed (loaded, no error), no results received
\* and no submission in progress, the submit action is disabled if and only if
\* some question has an empty or whitespace-only answer
C2_DisabledIffBlank ==
    (ViewMounted /\ Screen = "quiz" /\ results = None /\ ~isSubmitting)
        => (SubmitActionDisabled <=> ~EveryQuestionAnswered)

\* the submit button is enabled for a quiz of at least two questions
C2_Witness ==
    /\ ViewMounted /\ Screen = "quiz" /\ results = None /\ ~isSubmitting
    /\ Len(Questions) >= 2
    /\ ~SubmitActionDisabled

\* the quiz view shows the results of a submission
Reviewing == ViewMounted /\ Screen = "quiz" /\ results # None

\* C3: once results are received the view stays in Reviewing: the results are
\* never cleared or replaced and no submit request is issued, until the back
\* action returns the page to the upload form
C3_ReviewingIsTerminal ==
    /\ [](results # None => Reviewing)
    /\ [][Reviewing =>
            \/ Reviewing' /\ results' = results /\ pageVars' = pageVars /\ ~SubmitIssued
            \/ currentQuiz' = None /\ ~SubmitIssued]_vars

\* results are shown, and a hint was toggled
C3_Witness == Reviewing /\ showHints # <<>>

(***************************************************************************)
(* Outstanding requests                                                    *)
(***************************************************************************)
\* the number of requests in the bag B that belong to instance i
RECURSIVE CountOf(_, _)
CountOf(B, i) ==
    IF BagToSet(B) = {} THEN 0
    ELSE LET x == CHOOSE y \in BagToSet(B) : TRUE
         IN  (IF x.inst = i THEN CopiesIn(x, B) ELSE 0)
               + CountOf([y \in BagToSet(B) \ {x} |-> B[y]], i)

\* the network requests component instance i has outstanding
Outstanding(i) == CountOf(Requests(tasks), i) + CountOf(orphans, i)

\* C4: no component instance ever has two network requests outstanding
C4_OneRequestPerInstance == \A i \in 1..MaxInst : Outstanding(i) <= 1

\* the mounted instance and an unmounted quiz view each have a request
\* outstanding
C4_Witness ==
    /\ Outstanding(inst) = 1
    /\ \E i \in 1..MaxInst : i # inst /\ Outstanding(i) = 1

(***************************************************************************)
(* Properties of the proxy route handlers                                  *)
(***************************************************************************)
ProxyDone == proxy.pc = "done"

\* C5, as stated: every invocation of the upload proxy makes exactly one call
\* to the backend, also when the request body is no JSON
C5_ExactlyOneBackendCall_AsStated ==
    (ProxyDone /\ proxy.req.route = "upload") => proxy.calls = 1

\* C5, amended: an invocation of the upload proxy never makes more than one
\* backend call; when it returns it has made exactly one if the request body
\* parsed as JSON and none if it did not
C5_OneBackendCallIfBodyParses ==
    (proxy.pc # "idle" /\ proxy.req.route = "upload") =>
        /\ proxy.calls <= 1
        /\ ProxyDone => proxy.calls = (IF proxy.req.json = None THEN 0 ELSE 1)

\* the upload proxy returned after its one backend call was rejected
C5_Witness ==
    /\ ProxyDone /\ proxy.req.route = "upload"
    /\ proxy.calls = 1 /\ proxy.resp = None

\* the three responses a proxy invocation can return, with their causes
ReturnsPayload ==
    /\ proxy.resp # None /\ Val(proxy.resp).ok /\ Val(proxy.resp).json # None
    /\ Val(proxy.out).body = Val(Val(proxy.resp).json)
    /\ Val(proxy.out).status = 200

ReturnsBackendError ==
    /\ proxy.resp # None /\ ~Val(proxy.resp).ok
    /\ Val(proxy.out).status = Val(proxy.resp).status
    /\ Val(proxy.out).body = [error |-> <<"Backend error: ">> \o Val(proxy.resp).statusText]

ReturnsInternalError ==
    /\ Val(proxy.out) = [status |-> 500, body |-> [error |-> <<"Internal server error">>]]
    /\ \/ proxy.req.route = "upload" /\ proxy.req.json = None /\ proxy.calls = 0
       \/ proxy.calls = 1 /\ proxy.resp = None
       \/ proxy.resp # None /\ ~Val(proxy.resp).bodyOk

\* C6: every invocation of either proxy returns exactly one of the backend's
\* payload, an {error} with the backend's non-success status and status text,
\* or the fixed 500 "Internal server error" when the request body parse, the
\* backend call or the read of the backend's response fails
C6_ProxyResponseShape ==
    ProxyDone =>
        /\ proxy.out # None
        /\ Cardinality({ k \in {"payload", "backend", "internal"} :
               CASE k = "payload" -> ReturnsPayload
                 [] k = "backend" -> ReturnsBackendError
                 [] OTHER -> ReturnsInternalError }) = 1

\* the quiz proxy relayed a backend 404
C6_Witness ==
    /\ ProxyDone /\ proxy.req.route = "quiz"
    /\ ReturnsBackendError /\ Val(proxy.out).status = 404

(***************************************************************************)
(* Properties of the page                                                  *)
(***************************************************************************)
UploadTasks(B) == { t \in BagToSet(B) : t.kind = "upload" }

\* the handler t of an upload attempt ends in this step
UploadFinishes(t) == t \in UploadTasks(tasks) /\ UploadTasks(tasks') = {}

\* the upload request of t got a success response with a JSON body
UploadSucceeded(t) ==
    t.stage = "json" /\ Val(t.resp).ok /\ Val(t.resp).body # None

\* C7: the page starts with no quiz; it gets one only when an upload reports a
\* generated quiz, and then holds the reported id and title; it loses it only
\* by the back action of the quiz view; nothing else changes the page state
C7_PageStateMachine ==
    /\ currentQuiz = None
    /\ [][/\ (currentQuiz' # currentQuiz /\ currentQuiz' # None) =>
                /\ currentQuiz = None
                /\ \E t \in UploadTasks(tasks) :
                      /\ UploadFinishes(t) /\ UploadSucceeded(t)
                      /\ Val(currentQuiz').id = Val(Val(t.resp).body).id
                      /\ Val(currentQuiz').title = Val(Val(t.resp).body).title
          /\ (currentQuiz' # currentQuiz /\ currentQuiz' = None) => onBack
          /\ (currentQuiz' = currentQuiz) =>
                ~(\E t \in UploadTasks(tasks) : UploadFinishes(t) /\ UploadSucceeded(t))
         ]_vars

\* the page is in Viewing for the second time
C7_Witness == ViewMounted /\ inst >= 4

(***************************************************************************)
(* Properties of the upload form                                           *)
(***************************************************************************)
\* r is s without its leading and trailing whitespace
IsTrimOf(r, s) ==
    \E i \in 1..(Len(s) + 1) : \E j \in 0..Len(s) :
        /\ r = SubSeq(s, i, j)
        /\ \A k \in 1..(i - 1) : s[k] \in Whitespace
        /\ \A k \in (j + 1)..Len(s) : s[k] \in Whitespace
        /\ r # <<>> => (r[1] \notin Whitespace /\ r[Len(r)] \notin Whitespace)

B64Index(c) == (CHOOSE i \in 1..64 : B64Alphabet[i] = c) - 1

\* the bytes a base64 text stands for
RECURSIVE Base64Decode(_)
Base64Decode(cs) ==
    IF Len(cs) < 4 THEN <<>>
    ELSE LET i3 == IF cs[3] = "=" THEN 0 ELSE B64Index(cs[3])
             i4 == IF cs[4] = "=" THEN 0 ELSE B64Index(cs[4])
             n  == B64Index(cs[1]) * 262144 + B64Index(cs[2]) * 4096 + i3 * 64 + i4
             b  == <<n \div 65536, (n \div 256) % 256, n % 256>>
             k  == IF cs[3] = "=" THEN 1 ELSE IF cs[4] = "=" THEN 2 ELSE 3
         IN  SubSeq(b, 1, k) \o Base64Decode(SubSeq(cs, 5, Len(cs)))

\* the request of handler t carries the file and the trimmed title t holds
RequestCarries(t) ==
    /\ t.body # None
    /\ IsTrimOf(Val(t.body).title, t.title)
    /\ Base64Decode(Val(t.body).file_content) = Val(t.file).bytes

\* handler t starts in this step
UploadStarts(t) ==
    /\ t \in UploadTasks(tasks') /\ t.stage = "read"
    /\ CopiesIn(t, tasks') > CopiesIn(t, tasks)

\* C8, as stated: every upload attempt issues exactly one request, carrying the
\* base64 of the file held at submit time and the trimmed title
C8_ExactlyOneUploadRequest_AsStated ==
    [][\A t \in UploadTasks(tasks) :
          UploadFinishes(t) => (t.sent = 1 /\ RequestCarries(t))]_vars

\* C8, amended: an upload attempt holds the file and title of the form at
\* submit time (a file and a non-blank title); it issues no request while the
\* file is read, exactly one if the read succeeds and none if it fails; the
\* request carries the base64 of that file and that title trimmed
C8_OneUploadRequestIfFileRead ==
    [][/\ \A t \in UploadTasks(tasks') :
             UploadStarts(t) =>
                 /\ file # None /\ ~AllWhitespace(title)
                 /\ t.file = file /\ t.title = title /\ t.sent = 0
       /\ \A t \in UploadTasks(tasks') :
             t.stage # "read" => (t.sent = 1 /\ RequestCarries(t))
       /\ \A t \in UploadTasks(tasks) :
             UploadFinishes(t) => t.sent = (IF t.stage = "read" THEN 0 ELSE 1)
      ]_vars

\* an upload request is outstanding while the form already holds another file
\* and another title
C8_Witness ==
    \E t \in UploadTasks(tasks) :
        t.stage = "fetch" /\ t.file # file /\ t.title # title

\* C9: selecting a file that is no PDF, in any state of the form, leaves the
\* accepted file and the title as they are and sets a validation error
C9_NonPdfSelectionKeepsForm ==
    [][\A f \in FileInputs :
          (f.type # PdfType /\ handleFileChange(f)) =>
              /\ file' = file /\ title' = title
              /\ uploadStatus'.type = "error"
              /\ uploadStatus'.message = <<"Please select a valid PDF file.">>]_vars

\* the validation error is shown while an upload is in progress
C9_Witness ==
    /\ uploadStatus.message = <<"Please select a valid PDF file.">>
    /\ isUploading /\ file # None

\* what C10 says of a step in which an upload attempt ends, apart from the
\* form being submittable again
UploadOutcome ==
    /\ \A t \in UploadTasks(tasks) :
          (UploadFinishes(t) /\ ~UploadSucceeded(t)) =>
              /\ uploadStatus'.type = "error"
              /\ pageVars' = pageVars
              /\ file' = file /\ title' = title
    /\ ((currentQuiz = None /\ currentQuiz' # None) \/ (file # None /\ file' = None)) =>
          \E t \in UploadTasks(tasks) : UploadFinishes(t) /\ UploadSucceeded(t)

UploadFails == \E t \in UploadTasks(tasks) : UploadFinishes(t) /\ ~UploadSucceeded(t)

\* C10, as stated: a failed upload shows an error, invokes no callback, keeps
\* file and title and makes the form submittable again; callback and clearing
\* happen only on success
C10_FailedUpload_AsStated ==
    [][UploadOutcome /\ (UploadFails => ~UploadButtonDisabled')]_vars

\* C10, amended: as stated, except that after the failure the in-progress flag
\* is cleared and the form is submittable exactly if the title it then holds
\* is non-blank (the title stays editable while the upload is in flight)
C10_FailedUpload ==
    [][UploadOutcome /\
       (UploadFails =>
           /\ ~isUploading'
           /\ UploadButtonDisabled' <=> AllWhitespace(title'))]_vars

\* a failed upload left the form populated and submittable
C10_Witness ==
    /\ UploadMounted /\ uploadStatus.type = "error"
    /\ uploadStatus.message = <<"Upload failed: ", "Not Found">>
    /\ file # None /\ ~UploadButtonDisabled

(***************************************************************************)
(* Properties of the quiz fetch                                            *)
(***************************************************************************)
\* the fetch of fetchQuiz, awaited by t, settles with a rejection or with a
\* non-success response in this step: the handler ends without reaching
\* response.json()
QuizFetchFails(t) ==
    /\ BagIn(t, tasks)
    /\ t.kind = "fetchQuiz" /\ t.stage = "fetch"
    /\ inst' = inst
    /\ \A u \in BagToSet(tasks') : u.kind # "fetchQuiz"

\* C11: when the quiz fetch gets a non-success response or fails on the
\* network, the view leaves the loading state, holds a non-empty error
\* message, shows the error panel with no quiz and no submit action and with
\* a Go Back button; a click on that button returns the page to the upload
\* form
C11_FetchFailureShowsErrorPanel ==
    [][/\ \A t \in BagToSet(tasks) :
             QuizFetchFails(t) =>
                 /\ ~loading'
                 /\ IsSome(error') /\ Val(error') # <<>>
                 /\ ViewMounted'
                 /\ Screen' = "error"
                 /\ quiz' = None
                 /\ ~SubmitButtonRendered'
                 /\ BackButtonRendered'
       /\ (Screen = "error" /\ onBack) => (UploadMounted' /\ UploadInit')]_vars

\* the error panel after a backend 404 on the quiz fetch, with the Go Back
\* button still usable
C11_Witness ==
    /\ ViewMounted /\ Screen = "error" /\ quiz = None
    /\ error = Some(<<"Failed to fetch quiz: ", "Not Found">>)
    /\ BagToSet(tasks) = {}
    /\ inst < MaxInst

(***************************************************************************)
(* Properties of the hints                                                 *)
(***************************************************************************)
\* the hint button of question q is clicked in this step
HintToggled(q) ==
    /\ inst' = inst
    /\ showHints' # showHints
    /\ HintVisible(showHints', q) # HintVisible(showHints, q)

\* C12: a toggle of the hint of q changes the visibility of q only and leaves
\* the answers and the results as they are, and a second toggle of q gives
\* every question the visibility it had before the first; the visibility of
\* the hints changes in no other way while the view is mounted
C12_HintToggleIsInvolution ==
    [][/\ \A q \in QuestionIds :
             HintToggled(q) =>
                 /\ \A p \in QuestionIds \ {q} :
                        HintVisible(showHints', p) = HintVisible(showHints, p)
                 /\ answers' = answers
                 /\ results' = results
                 /\ \A p \in QuestionIds :
                        HintVisible(ToggledHints(showHints', q), p) = HintVisible(showHints, p)
       /\ (inst' = inst /\ showHints' # showHints) => \E q \in QuestionIds : HintToggled(q)
       /\ \A q \in QuestionIds : toggleHint(q) => HintToggled(q)]_vars

\* one hint was toggled twice and is hidden again while another is shown,
\* with an answer given and with results received
C12_Witness ==
    /\ Reviewing
    /\ answers # <<>>
    /\ \E q, p \in QuestionIds :
          /\ q \in DOMAIN showHints /\ ~showHints[q]
          /\ HintVisible(showHints, p)

(***************************************************************************)
(* Properties of the in-progress flags                                     *)
(***************************************************************************)
\* the mounted component has a request of kind k outstanding
RequestOutstanding(k) ==
    \E o \in BagToSet(Requests(tasks)) : o.inst = inst /\ o.kind = k

\* the handler of kind k of the mounted component is suspended at an await,
\* whether or not it has sent its request
HandlerPending(k) == \E t \in BagToSet(tasks) : t.inst = inst /\ t.kind = k

\* the request awaited by t settles in this step and its handler runs to
\* its end
RequestResolves(t) ==
    /\ BagIn(t, tasks)
    /\ t.stage # "read"
    /\ orphans' = orphans
    /\ \A u \in BagToSet(tasks') : ~(u.inst = t.inst /\ u.kind = t.kind)

\* in the step in which a request resolves, with success or with an error,
\* the in-progress flag of its kind is cleared
FlagClearedOnResolve ==
    \A t \in BagToSet(tasks) :
        RequestResolves(t) =>
            CASE t.kind = "upload"    -> ~isUploading'
              [] t.kind = "fetchQuiz" -> ~loading'
              [] OTHER                -> ~isSubmitting'

\* C13, as stated: each in-progress flag of the mounted component is true
\* exactly while its request is outstanding, and is cleared when the request
\* resolves
C13_FlagIffRequestOutstanding_AsStated ==
    /\ [](/\ UploadMounted => (isUploading <=> RequestOutstanding("upload"))
          /\ ViewMounted => /\ loading <=> RequestOutstanding("fetchQuiz")
                            /\ isSubmitting <=> RequestOutstanding("submit"))
    /\ [][FlagClearedOnResolve]_vars

\* C13, amended: the quiz-loading and the submitting flag are true exactly
\* while their request is outstanding; the upload flag is true exactly while
\* handleSubmit is pending, which is while the file is being read (no request
\* sent yet) and then while the request is outstanding; each flag is cleared
\* in the step in which its request resolves
C13_FlagIffHandlerPending ==
    /\ [](/\ UploadMounted => /\ isUploading <=> HandlerPending("upload")
                              /\ RequestOutstanding("upload") => isUploading
          /\ ViewMounted => /\ loading <=> RequestOutstanding("fetchQuiz")
                            /\ isSubmitting <=> RequestOutstanding("submit"))
    /\ [][FlagClearedOnResolve]_vars

\* the quiz was fetched and a submission was refused by the server: both
\* requests have resolved and both flags are false
C13_Witness ==
    /\ ViewMounted /\ quiz # None
    /\ error = Some(<<"Submission failed: ", "Internal Server Error">>)
    /\ ~loading /\ ~isSubmitting
    /\ ~RequestOutstanding("fetchQuiz") /\ ~RequestOutstanding("submit")

(***************************************************************************)
(* Properties of the answers under review                                  *)
(***************************************************************************)
\* the response of a submission is stored in this step
ResultsReceived == results = None /\ results' # None

\* the answers the view holds, in the form in which handleSubmit sends them
LocalAnswers == Entries(answers)

\* C14: when the results of a submission are stored, the answers the view
\* holds are exactly the answers that submission sent, and they do not change
\* while the results are shown, whatever answer edits happened while the
\* submit request was in flight
C14_ReviewedAnswersAreSentAnswers ==
    [][/\ ResultsReceived =>
             \E t \in BagToSet(tasks) :
                 /\ t.kind = "submit" /\ t.stage = "json"
                 /\ LocalAnswers' = Val(t.body).answers
       /\ (Reviewing /\ Reviewing') => answers' = answers]_vars

\* results are shown for an answer other than the one the view holds: the
\* answer was edited while the submit request was in flight
C14_Witness ==
    /\ Reviewing
    /\ \E i \in DOMAIN Val(results).results :
          LET r == Val(results).results[i] IN
          /\ r.question_id \in DOMAIN answers
          /\ answers[r.question_id] # r.user_answer

====
